---- MODULE Spec2Model ----
(***************************************************************************)
(* Customer Impact summary generator for a GitHub release.                 *)
(*                                                                         *)
(* The repository holds two entry points of the same class                 *)
(* CustomerImpactSummaryGenerator: src/index.js (the GitHub Action, called *)
(* "index" below) and src/unnamed/part_000 (the earlier stand-alone        *)
(* script, called "legacy" below).  The variable `variant` says which of   *)
(* the two is running; a definition whose name ends in _legacy models the  *)
(* method of part_000, the unsuffixed one the method of index.js.          *)
(*                                                                         *)
(* Strings the code inspects (commit messages, label names) are sequences  *)
(* of one-character strings, so that String.prototype.match / includes /   *)
(* toLowerCase / parseInt are computed and not assumed.                    *)
(***************************************************************************)
EXTENDS Integers, Sequences, FiniteSets, TLC

VARIABLES
    variant,          \* "index" (src/index.js) or "legacy" (src/unnamed/part_000)
    env,              \* process.env / action inputs
    releases,         \* the release list the source-control API returns
    body,             \* the stored body of the current release
    pc,               \* position of run()
    context,          \* context.release of getGitHubContext
    previousRelease,  \* result of getPreviousRelease
    commits,          \* comparison.data.commits (input of extractPRNumbers)
    prNumbers,        \* result of extractPRNumbers
    idx,              \* position of the for-of loop over prNumbers
    pullRequests,     \* pullRequests of getPRsInRelease
    clientImpactPRs,  \* result of filterClientImpactPRs
    builds,           \* includeDiffs argument of each buildPRContext call
    prompt,           \* prompt of generateSummary
    tokenCount,       \* tokenCount of generateSummary (-1: not measured)
    newTokenCount,    \* newTokenCount of generateSummary (-1: not measured)
    generated,        \* prompts handed to model.generateContent
    summary,          \* text returned by generateContent
    calls,            \* external calls issued so far, with their outcome
    exitCode,         \* -1 while running, then the process exit code
    error             \* the error surfaced by the run

vars == <<variant, env, releases, body, pc, context, previousRelease, commits,
          prNumbers, idx, pullRequests, clientImpactPRs, builds, prompt,
          tokenCount, newTokenCount, generated, summary, calls, exitCode,
          error>>

(***************************************************************************)
(* Bounds of the model.                                                    *)
(***************************************************************************)
MaxCommits == 3      \* longest commit list given to extractPRNumbers alone
MaxCompare == 2      \* longest commit list a comparison returns in a run
MaxReleases == 3     \* longest release list
MaxFiles == 1        \* most files of a pull request given to generateSummary
MaxPRs == 2          \* largest impact set given to generateSummary alone
MaxRuns == 3         \* most runs that reach updateReleaseDescription in a row

(***************************************************************************)
(* Strings.                                                                *)
(***************************************************************************)
Range(s) == {s[i] : i \in 1..Len(s)}

Front(s) == SubSeq(s, 1, Len(s) - 1)

Digits == {"0", "1", "2", "3", "4", "5", "6", "7", "8", "9"}

DigitVal(c) ==
    CASE c = "0" -> 0 [] c = "1" -> 1 [] c = "2" -> 2 [] c = "3" -> 3
      [] c = "4" -> 4 [] c = "5" -> 5 [] c = "6" -> 6 [] c = "7" -> 7
      [] c = "8" -> 8 [] c = "9" -> 9

\* String.prototype.includes
Includes(s, sub) ==
    \E i \in 1..(Len(s) - Len(sub) + 1) : SubSeq(s, i, i + Len(sub) - 1) = sub

\* s has sub at position i
HasAt(s, sub, i) ==
    /\ i >= 1
    /\ i + Len(sub) - 1 <= Len(s)
    /\ SubSeq(s, i, i + Len(sub) - 1) = sub

\* length of the longest run of digits of s that starts at position i: (\d+)
RECURSIVE DigitRun(_, _)
DigitRun(s, i) ==
    IF i <= Len(s) /\ s[i] \in Digits THEN 1 + DigitRun(s, i + 1) ELSE 0

\* parseInt(digits, 10) of a non-empty string of decimal digits
RECURSIVE parseInt(_)
parseInt(ds) ==
    IF ds = <<>> THEN 0 ELSE parseInt(Front(ds)) * 10 + DigitVal(ds[Len(ds)])

UpperCase == <<"A","B","C","D","E","F","G","H","I","J","K","L","M","N","O","P","Q","R","S","T","U","V","W","X","Y","Z">>

LowerCase == <<"a","b","c","d","e","f","g","h","i","j","k","l","m","n","o","p","q","r","s","t","u","v","w","x","y","z">>

\* String.prototype.toLowerCase
toLowerCase(s) ==
    [i \in 1..Len(s) |->
        IF \E k \in 1..26 : UpperCase[k] = s[i]
        THEN LowerCase[CHOOSE k \in 1..26 : UpperCase[k] = s[i]]
        ELSE s[i]]

(***************************************************************************)
(* extractPRNumbers                                                        *)
(***************************************************************************)
\* "Merge pull request #"
MergePattern == <<"M","e","r","g","e"," ","p","u","l","l"," ","r","e","q","u","e","s","t"," ","#">>

\* "from umanai/development"
DevelopmentSource == <<"f","r","o","m"," ","u","m","a","n","a","i","/","d","e","v","e","l","o","p","m","e","n","t">>

\* "(#" and ")"
InlineOpen == <<"(","#">>

InlineClose == <<")">>

\* message.match(/Merge pull request #(\d+)/)[1], <<>> when there is no match
mergeMatch(message) ==
    LET n == Len(MergePattern)
        At(i) == HasAt(message, MergePattern, i) /\ DigitRun(message, i + n) >= 1
    IN  IF \E i \in 1..Len(message) : At(i)
        THEN LET i == CHOOSE i \in 1..Len(message) :
                          At(i) /\ \A j \in 1..(i - 1) : ~At(j)
             IN  SubSeq(message, i + n, i + n + DigitRun(message, i + n) - 1)
        ELSE <<>>

isDevelopmentPR_never(message) == FALSE

\* message.includes("from umanai/development")
isDevelopmentPR(message) == Includes(message, DevelopmentSource)

\* the prNumber of one commit of the forEach; 0 stands for both null and 0,
\* which `if (prNumber)` treats alike
prNumberOf(message) ==
    IF mergeMatch(message) # <<>> /\ ~isDevelopmentPR(message)
    THEN parseInt(mergeMatch(message))
    ELSE 0

SetAdd_NoDedup(s, x) == Append(s, x)

\* Set.prototype.add on a Set kept in insertion order
SetAdd(s, x) == IF x \in Range(s) THEN s ELSE Append(s, x)

RECURSIVE extractPRNumbers(_)
extractPRNumbers(cs) ==
    IF cs = <<>> THEN <<>>
    ELSE LET prev == extractPRNumbers(Front(cs))
             prNumber == prNumberOf(cs[Len(cs)].message)
         IN  IF prNumber # 0 THEN SetAdd(prev, prNumber) ELSE prev

\* commit.commit.message.match(/\(#(\d+)\)/)[1], <<>> when there is no match
prMatch_legacy(message) ==
    LET At(i) == /\ HasAt(message, InlineOpen, i)
                 /\ DigitRun(message, i + 2) >= 1
                 /\ HasAt(message, InlineClose, i + 2 + DigitRun(message, i + 2))
    IN  IF \E i \in 1..Len(message) : At(i)
        THEN LET i == CHOOSE i \in 1..Len(message) :
                          At(i) /\ \A j \in 1..(i - 1) : ~At(j)
             IN  SubSeq(message, i + 2, i + 2 + DigitRun(message, i + 2) - 1)
        ELSE <<>>

RECURSIVE extractPRNumbers_legacy(_)
extractPRNumbers_legacy(cs) ==
    IF cs = <<>> THEN <<>>
    ELSE LET prev == extractPRNumbers_legacy(Front(cs))
             m == prMatch_legacy(cs[Len(cs)].message)
         IN  IF m # <<>> THEN SetAdd(prev, parseInt(m)) ELSE prev

(***************************************************************************)
(* Commit messages the comparison may return.                              *)
(***************************************************************************)
\* "Merge pull request #12 from x/y"
Msg12 == MergePattern \o <<"1","2">> \o <<" ","f","r","o","m"," ","x","/","y">>

\* "Merge pull request #34 from umanai/development"
Msg34Dev == MergePattern \o <<"3","4">> \o <<" ">> \o DevelopmentSource

\* "Merge pull request #12 from umanai/development"
Msg12Dev == MergePattern \o <<"1","2">> \o <<" ">> \o DevelopmentSource

\* "Merge pull request #34 from a/b"
Msg34 == MergePattern \o <<"3","4">> \o <<" ","f","r","o","m"," ","a","/","b">>

\* "Merge pull request #0 from x/y"
Msg0 == MergePattern \o <<"0">> \o <<" ","f","r","o","m"," ","x","/","y">>

\* "Fix (#7)"
MsgInline7 == <<"F","i","x"," ">> \o InlineOpen \o <<"7">> \o InlineClose

\* "Add (#12) (#34)"
MsgInline12 == <<"A","d","d"," ">> \o InlineOpen \o <<"1","2">> \o InlineClose
                   \o <<" ">> \o InlineOpen \o <<"3","4">> \o InlineClose

\* "Merge pull request #7 from x/y (#34)"
MsgBoth == MergePattern \o <<"7">> \o <<" ","f","r","o","m"," ","x","/","y"," ">>
               \o InlineOpen \o <<"3","4">> \o InlineClose

\* "bump #5"
MsgPlain == <<"b","u","m","p"," ","#","5">>

Messages == {Msg12, Msg34Dev, Msg12Dev, Msg34, Msg0, MsgInline7, MsgInline12,
             MsgBoth, MsgPlain}

SeqsUpTo(S, n) == UNION {[1..k -> S] : k \in 0..n}

CommitRecords == {[message |-> m] : m \in Messages}

\* the commits a comparison returns in a run: two pull requests per variant
ComparedCommits ==
    {[message |-> m] : m \in {Msg12, Msg34, Msg34Dev, MsgInline7, MsgInline12}}

NoRelease == [tag_name |-> 0, draft |-> FALSE]

NoContext == [tag_name |-> 0, body |-> <<>>]

NoPrompt == [count |-> 0, context |-> <<>>]

NoError == [kind |-> "none", api |-> "none", tokens |-> <<>>]

(***************************************************************************)
(* extractPRNumbers on its own: every commit list up to MaxCommits.        *)
(***************************************************************************)
InitExtract ==
    /\ variant \in {"index", "legacy"}
    /\ commits \in SeqsUpTo(CommitRecords, MaxCommits)
    /\ pc = "extract"
    /\ env = [githubToken |-> TRUE, geminiKey |-> TRUE, repository |-> TRUE,
              releaseTag |-> 1]
    /\ releases = <<>>
    /\ body = <<>>
    /\ context = NoContext
    /\ previousRelease = NoRelease
    /\ prNumbers = <<>>
    /\ idx = 1
    /\ pullRequests = <<>>
    /\ clientImpactPRs = <<>>
    /\ builds = <<>>
    /\ prompt = NoPrompt
    /\ tokenCount = -1
    /\ newTokenCount = -1
    /\ generated = <<>>
    /\ summary = ""
    /\ calls = <<>>
    /\ exitCode = -1
    /\ error = NoError

ExtractPRNumbers ==
    /\ pc = "extract"
    /\ prNumbers' = IF variant = "index" THEN extractPRNumbers(commits)
                    ELSE extractPRNumbers_legacy(commits)
    /\ pc' = "extracted"
    /\ UNCHANGED <<variant, env, releases, body, context, previousRelease,
                   commits, idx, pullRequests, clientImpactPRs, builds, prompt,
                   tokenCount, newTokenCount, generated, summary, calls,
                   exitCode, error>>

NextExtract == ExtractPRNumbers

SpecExtract == InitExtract /\ [][NextExtract]_vars

(***************************************************************************)
(* Pure helpers of the run.                                                *)
(***************************************************************************)
maxTokens == 1000000

PatchInclusionCeiling == 2000

\* "customer impact"
ImpactMarker == <<"c","u","s","t","o","m","e","r"," ","i","m","p","a","c","t">>

\* "client-impact", "customer-facing", "user-facing", "customer-impact"
clientImpactLabels ==
    { <<"c","l","i","e","n","t","-","i","m","p","a","c","t">>,
      <<"c","u","s","t","o","m","e","r","-","f","a","c","i","n","g">>,
      <<"u","s","e","r","-","f","a","c","i","n","g">>,
      <<"c","u","s","t","o","m","e","r","-","i","m","p","a","c","t">> }

\* label names a pull request may carry: "Customer Impact", "bug",
\* "Customer-Impact"
LabelSpace == <<"C","u","s","t","o","m","e","r"," ","I","m","p","a","c","t">>

LabelBug == <<"b","u","g">>

LabelDash == <<"C","u","s","t","o","m","e","r","-","I","m","p","a","c","t">>

LabelLists ==
    { <<>>, <<[name |-> LabelSpace]>>, <<[name |-> LabelDash]>>,
      <<[name |-> LabelBug], [name |-> LabelSpace]>> }

\* file.patch.length; 0 stands for an absent or empty patch (both falsy)
PatchLengths == {0, PatchInclusionCeiling - 1, PatchInclusionCeiling}

FileChanges == {[patchLength |-> n] : n \in PatchLengths}

\* the file lists pulls.listFiles returns in a whole run
FetchedFileLists == {<<>>, <<[patchLength |-> PatchInclusionCeiling - 1]>>}

\* values model.countTokens may return
TokenCounts == {maxTokens \div 2, maxTokens, maxTokens + 1, 2 * maxTokens}

Summaries == {"summary A", "summary B"}

Bodies == {<<[kind |-> "text", text |-> "release notes"]>>}

ReleaseLists ==
    UNION { { [i \in 1..n |-> [tag_name |-> i, draft |-> d[i]]] :
                d \in [1..n -> BOOLEAN] } : n \in 0..MaxReleases }

\* releases.data.find((release) => release.draft), NoRelease when undefined
draftRelease(rels) ==
    IF \E i \in 1..Len(rels) : rels[i].draft
    THEN rels[CHOOSE i \in 1..Len(rels) :
                  rels[i].draft /\ \A j \in 1..(i - 1) : ~rels[j].draft]
    ELSE NoRelease

getPreviousRelease_first(rels, currentTag) ==
    IF Len(rels) >= 1 THEN rels[1] ELSE NoRelease

\* publishedReleases[0] || null
getPreviousRelease(rels, currentTag) ==
    LET publishedReleases == SelectSeq(rels, LAMBDA r : ~r.draft)
    IN  IF Len(publishedReleases) >= 1 THEN publishedReleases[1] ELSE NoRelease

\* releases.data[currentIndex + 1] || null, currentIndex = -1 when the tag is
\* not listed (positions here count from 1)
getPreviousRelease_legacy(rels, currentTag) ==
    LET currentIndex ==
            IF \E i \in 1..Len(rels) : rels[i].tag_name = currentTag
            THEN CHOOSE i \in 1..Len(rels) :
                     /\ rels[i].tag_name = currentTag
                     /\ \A j \in 1..(i - 1) : rels[j].tag_name # currentTag
            ELSE 0
    IN  IF currentIndex + 1 <= Len(rels) THEN rels[currentIndex + 1]
        ELSE NoRelease

filterClientImpactPRs(prs) ==
    SelectSeq(prs, LAMBDA pr :
        \E i \in 1..Len(pr.labels) :
            Includes(toLowerCase(pr.labels[i].name), ImpactMarker))

filterClientImpactPRs_legacy(prs) ==
    SelectSeq(prs, LAMBDA pr :
        \E i \in 1..Len(pr.labels) :
            \E clientLabel \in clientImpactLabels :
                Includes(toLowerCase(pr.labels[i].name),
                         toLowerCase(clientLabel)))

\* what buildPRContext renders for one file inside "**File Changes:**"
renderFileChange(file) ==
    IF file.patchLength > 0 /\ file.patchLength < PatchInclusionCeiling
    THEN [kind |-> "diff", size |-> file.patchLength]
    ELSE IF file.patchLength > 0
         THEN [kind |-> "tooLarge", size |-> file.patchLength]
         ELSE [kind |-> "counts", size |-> 0]

buildPRContext_alwaysDiffs(prs, includeDiffs) ==
    [i \in 1..Len(prs) |->
        [number |-> prs[i].number,
         labels |-> prs[i].labels,
         section |-> IF Len(prs[i].files) > 0 THEN "File Changes" ELSE "none",
         files |-> [k \in 1..Len(prs[i].files) |->
                        renderFileChange(prs[i].files[k])]]]

\* one entry per pull request: its header lines, then the section of files
buildPRContext(prs, includeDiffs) ==
    [i \in 1..Len(prs) |->
        [number |-> prs[i].number,
         labels |-> prs[i].labels,
         section |-> IF includeDiffs /\ Len(prs[i].files) > 0
                     THEN "File Changes"
                     ELSE IF ~includeDiffs /\ Len(prs[i].files) > 0
                          THEN "Files Changed"
                          ELSE "none",
         files |-> IF includeDiffs
                   THEN [k \in 1..Len(prs[i].files) |->
                             renderFileChange(prs[i].files[k])]
                   ELSE [k \in 1..Len(prs[i].files) |->
                             [kind |-> "listed", size |-> 0]]]]

buildPRContext_legacy(prs) ==
    [i \in 1..Len(prs) |->
        [number |-> prs[i].number,
         labels |-> prs[i].labels,
         section |-> "none",
         files |-> <<>>]]

\* the prompt template around a rendered context
Prompt(prs, prContext) == [count |-> Len(prs), context |-> prContext]

\* an update that replaces the region of an earlier run
updatedBody_replace(oldBody, text) ==
    <<[kind |-> "details", text |-> text]>>
        \o SelectSeq(oldBody, LAMBDA b : b.kind # "details")

\* csSummarySection + (context.release.body || "")
updatedBody(oldBody, text) == <<[kind |-> "details", text |-> text]>> \o oldBody

\* context.release.body + csSummarySection
updatedBody_legacy(oldBody, text) ==
    oldBody \o <<[kind |-> "section", text |-> text]>>

Call(api, ok, pr) == [api |-> api, ok |-> ok, pr |-> pr]

Err(kind, api, tokens) == [kind |-> kind, api |-> api, tokens |-> tokens]

CountCalls(api) == Cardinality({i \in 1..Len(calls) : calls[i].api = api})

(***************************************************************************)
(* One run of the generator: `new CustomerImpactSummaryGenerator()`, then  *)
(* run().  External calls are the only suspension points; every call may   *)
(* fail, and what it returns is drawn from the sets above.                 *)
(***************************************************************************)
\* a throw that reaches the catch of run() (core.setFailed, process.exit(1)),
\* or an uncaught throw of the constructor: the process exits with code 1
Abort(e) == pc' = "done" /\ exitCode' = 1 /\ error' = e

\* control moves on inside run()
Continue(next) == pc' = next /\ UNCHANGED <<exitCode, error>>

\* run() returns and the process ends with code 0
Finish == pc' = "done" /\ exitCode' = 0 /\ UNCHANGED error

Init ==
    /\ variant \in {"index", "legacy"}
    /\ env \in [githubToken : BOOLEAN, geminiKey : BOOLEAN,
                repository : BOOLEAN, releaseTag : 0..(MaxReleases + 1)]
    /\ variant = "index" => env.releaseTag = 0
    /\ releases \in ReleaseLists
    /\ body \in Bodies
    /\ pc = "new"
    /\ context = NoContext
    /\ previousRelease = NoRelease
    /\ commits = <<>>
    /\ prNumbers = <<>>
    /\ idx = 1
    /\ pullRequests = <<>>
    /\ clientImpactPRs = <<>>
    /\ builds = <<>>
    /\ prompt = NoPrompt
    /\ tokenCount = -1
    /\ newTokenCount = -1
    /\ generated = <<>>
    /\ summary = ""
    /\ calls = <<>>
    /\ exitCode = -1
    /\ error = NoError

constructor ==
    /\ pc = "new"
    /\ variant = "index"
    /\ IF ~env.githubToken
       THEN Abort(Err("config", "github_token", <<>>))
       ELSE IF ~env.geminiKey
            THEN Abort(Err("config", "google_gemini_api_key", <<>>))
            ELSE Continue("getGitHubContext")
    /\ UNCHANGED <<variant, env, releases, body, context, previousRelease,
                   commits, prNumbers, idx, pullRequests, clientImpactPRs,
                   builds, prompt, tokenCount, newTokenCount, generated,
                   summary, calls>>

constructor_legacy ==
    /\ pc = "new"
    /\ variant = "legacy"
    /\ IF ~env.geminiKey
       THEN Abort(Err("config", "GEMINI_API_KEY", <<>>))
       ELSE Continue("getGitHubContext")
    /\ UNCHANGED <<variant, env, releases, body, context, previousRelease,
                   commits, prNumbers, idx, pullRequests, clientImpactPRs,
                   builds, prompt, tokenCount, newTokenCount, generated,
                   summary, calls>>

getGitHubContext ==
    /\ pc = "getGitHubContext"
    /\ variant = "index"
    /\ IF ~env.repository
       THEN /\ Abort(Err("config", "GITHUB_REPOSITORY", <<>>))
            /\ UNCHANGED <<calls, context>>
       ELSE \E ok \in BOOLEAN :
              /\ calls' = Append(calls, Call("listReleases", ok, 0))
              /\ IF ~ok
                 THEN /\ Abort(Err("api", "listReleases", <<>>))
                      /\ UNCHANGED context
                 ELSE IF draftRelease(releases) = NoRelease
                      THEN /\ Abort(Err("noDraftRelease", "none", <<>>))
                           /\ UNCHANGED context
                      ELSE /\ context' =
                                [tag_name |-> draftRelease(releases).tag_name,
                                 body |-> body]
                           /\ Continue("getPreviousRelease")
    /\ UNCHANGED <<variant, env, releases, body, previousRelease, commits,
                   prNumbers, idx, pullRequests, clientImpactPRs, builds,
                   prompt, tokenCount, newTokenCount, generated, summary>>

getGitHubContext_legacy ==
    /\ pc = "getGitHubContext"
    /\ variant = "legacy"
    /\ IF ~env.repository
       THEN /\ Abort(Err("config", "GITHUB_REPOSITORY", <<>>))
            /\ UNCHANGED context
       ELSE IF env.releaseTag = 0
            THEN /\ Abort(Err("config", "RELEASE_TAG", <<>>))
                 /\ UNCHANGED context
            ELSE /\ context' = [tag_name |-> env.releaseTag, body |-> body]
                 /\ Continue("getPreviousRelease")
    /\ UNCHANGED <<variant, env, releases, body, previousRelease, commits,
                   prNumbers, idx, pullRequests, clientImpactPRs, builds,
                   prompt, tokenCount, newTokenCount, generated, summary,
                   calls>>

\* the call of getPreviousRelease in run()
GetPreviousRelease ==
    /\ pc = "getPreviousRelease"
    /\ variant = "index"
    /\ \E ok \in BOOLEAN :
         /\ calls' = Append(calls, Call("listReleases", ok, 0))
         /\ IF ~ok
            THEN /\ Abort(Err("api", "listReleases", <<>>))
                 /\ UNCHANGED previousRelease
            ELSE /\ previousRelease' =
                      getPreviousRelease(releases, context.tag_name)
                 /\ Continue("getPRsInRelease")
    /\ UNCHANGED <<variant, env, releases, body, context, commits, prNumbers,
                   idx, pullRequests, clientImpactPRs, builds, prompt,
                   tokenCount, newTokenCount, generated, summary>>

\* the call of getPreviousRelease in run()
GetPreviousRelease_legacy ==
    /\ pc = "getPreviousRelease"
    /\ variant = "legacy"
    /\ \E ok \in BOOLEAN :
         /\ calls' = Append(calls, Call("listReleases", ok, 0))
         /\ IF ~ok
            THEN /\ Abort(Err("api", "listReleases", <<>>))
                 /\ UNCHANGED previousRelease
            ELSE /\ previousRelease' =
                      getPreviousRelease_legacy(releases, context.tag_name)
                 /\ Continue("getPRsInRelease")
    /\ UNCHANGED <<variant, env, releases, body, context, commits, prNumbers,
                   idx, pullRequests, clientImpactPRs, builds, prompt,
                   tokenCount, newTokenCount, generated, summary>>

\* getPRsInRelease up to the loop over prNumbers; the commit list is a local
\* of the method and is not kept
getPRsInRelease ==
    /\ pc = "getPRsInRelease"
    /\ variant = "index"
    /\ idx' = 1
    /\ pullRequests' = <<>>
    /\ IF previousRelease = NoRelease
       THEN /\ prNumbers' = <<>>
            /\ Continue("filter")
            /\ UNCHANGED calls
       ELSE \E ok \in BOOLEAN :
              /\ calls' = Append(calls, Call("compareCommits", ok, 0))
              /\ IF ~ok
                 THEN \* caught and logged: return []
                      /\ prNumbers' = <<>>
                      /\ Continue("filter")
                 ELSE \E cs \in SeqsUpTo(ComparedCommits, MaxCompare) :
                        /\ prNumbers' = extractPRNumbers(cs)
                        /\ Continue(IF extractPRNumbers(cs) = <<>>
                                    THEN "filter" ELSE "fetch")
    /\ UNCHANGED <<variant, env, releases, body, context, previousRelease,
                   commits, clientImpactPRs, builds, prompt, tokenCount,
                   newTokenCount, generated, summary>>

getPRsInRelease_legacy ==
    /\ pc = "getPRsInRelease"
    /\ variant = "legacy"
    /\ idx' = 1
    /\ pullRequests' = <<>>
    /\ IF previousRelease = NoRelease
       THEN /\ prNumbers' = <<>>
            /\ Continue("filter")
            /\ UNCHANGED calls
       ELSE \E ok \in BOOLEAN :
              /\ calls' = Append(calls, Call("compareCommits", ok, 0))
              /\ IF ~ok
                 THEN /\ prNumbers' = <<>>
                      /\ Abort(Err("api", "compareCommits", <<>>))
                 ELSE \E cs \in SeqsUpTo(ComparedCommits, MaxCompare) :
                        /\ prNumbers' = extractPRNumbers_legacy(cs)
                        /\ Continue(IF extractPRNumbers_legacy(cs) = <<>>
                                    THEN "filter" ELSE "fetch")
    /\ UNCHANGED <<variant, env, releases, body, context, previousRelease,
                   commits, clientImpactPRs, builds, prompt, tokenCount,
                   newTokenCount, generated, summary>>

\* one turn of the loop without its try/catch
FetchPR_abort ==
    /\ pc = "fetch"
    /\ variant = "index"
    /\ idx <= Len(prNumbers)
    /\ idx' = idx + 1
    /\ \E outcome \in {"getFails", "listFilesFails", "ok"} :
         \E labels \in LabelLists, files \in FetchedFileLists :
           LET n == prNumbers[idx]
               next == IF idx + 1 > Len(prNumbers) THEN "filter" ELSE "fetch"
           IN  CASE outcome = "getFails" ->
                      /\ calls' = Append(calls, Call("pulls.get", FALSE, n))
                      /\ UNCHANGED pullRequests
                      /\ Abort(Err("api", "pulls.get", <<>>))
                 [] outcome = "listFilesFails" ->
                      /\ calls' = calls \o <<Call("pulls.get", TRUE, n),
                                             Call("pulls.listFiles", FALSE, n)>>
                      /\ UNCHANGED pullRequests
                      /\ Abort(Err("api", "pulls.listFiles", <<>>))
                 [] outcome = "ok" ->
                      /\ calls' = calls \o <<Call("pulls.get", TRUE, n),
                                             Call("pulls.listFiles", TRUE, n)>>
                      /\ pullRequests' = Append(pullRequests,
                             [number |-> n, labels |-> labels, files |-> files])
                      /\ Continue(next)
    /\ UNCHANGED <<variant, env, releases, body, context, previousRelease,
                   commits, prNumbers, clientImpactPRs, builds, prompt,
                   tokenCount, newTokenCount, generated, summary>>

\* one turn of `for (const prNumber of prNumbers)`: pulls.get, then
\* pulls.listFiles, both inside the try
FetchPR ==
    /\ pc = "fetch"
    /\ variant = "index"
    /\ idx <= Len(prNumbers)
    /\ idx' = idx + 1
    /\ Continue(IF idx + 1 > Len(prNumbers) THEN "filter" ELSE "fetch")
    /\ \E outcome \in {"getFails", "listFilesFails", "ok"} :
         \E labels \in LabelLists, files \in FetchedFileLists :
           LET n == prNumbers[idx]
           IN  CASE outcome = "getFails" ->
                      /\ calls' = Append(calls, Call("pulls.get", FALSE, n))
                      /\ UNCHANGED pullRequests
                 [] outcome = "listFilesFails" ->
                      /\ calls' = calls \o <<Call("pulls.get", TRUE, n),
                                             Call("pulls.listFiles", FALSE, n)>>
                      /\ UNCHANGED pullRequests
                 [] outcome = "ok" ->
                      /\ calls' = calls \o <<Call("pulls.get", TRUE, n),
                                             Call("pulls.listFiles", TRUE, n)>>
                      /\ pullRequests' = Append(pullRequests,
                             [number |-> n, labels |-> labels, files |-> files])
    /\ UNCHANGED <<variant, env, releases, body, context, previousRelease,
                   commits, prNumbers, clientImpactPRs, builds, prompt,
                   tokenCount, newTokenCount, generated, summary>>

\* one turn of the loop of part_000: pulls.get only, no file list
FetchPR_legacy ==
    /\ pc = "fetch"
    /\ variant = "legacy"
    /\ idx <= Len(prNumbers)
    /\ idx' = idx + 1
    /\ Continue(IF idx + 1 > Len(prNumbers) THEN "filter" ELSE "fetch")
    /\ \E ok \in BOOLEAN, labels \in LabelLists :
         LET n == prNumbers[idx]
         IN  /\ calls' = Append(calls, Call("pulls.get", ok, n))
             /\ pullRequests' =
                    IF ok
                    THEN Append(pullRequests,
                             [number |-> n, labels |-> labels, files |-> <<>>])
                    ELSE pullRequests
    /\ UNCHANGED <<variant, env, releases, body, context, previousRelease,
                   commits, prNumbers, clientImpactPRs, builds, prompt,
                   tokenCount, newTokenCount, generated, summary>>

\* the filter step without the `length === 0` return
FilterAndBranch_noCheck ==
    /\ pc = "filter"
    /\ variant = "index"
    /\ clientImpactPRs' = filterClientImpactPRs(pullRequests)
    /\ Continue("generateSummary")
    /\ UNCHANGED <<variant, env, releases, body, context, previousRelease,
                   commits, prNumbers, idx, pullRequests, builds, prompt,
                   tokenCount, newTokenCount, generated, summary, calls>>

\* filterClientImpactPRs and the `clientImpactPRs.length === 0` return of run()
FilterAndBranch ==
    /\ pc = "filter"
    /\ variant = "index"
    /\ clientImpactPRs' = filterClientImpactPRs(pullRequests)
    /\ IF Len(filterClientImpactPRs(pullRequests)) = 0
       THEN Finish
       ELSE Continue("generateSummary")
    /\ UNCHANGED <<variant, env, releases, body, context, previousRelease,
                   commits, prNumbers, idx, pullRequests, builds, prompt,
                   tokenCount, newTokenCount, generated, summary, calls>>

\* filterClientImpactPRs and the `clientImpactPRs.length === 0` return of run()
FilterAndBranch_legacy ==
    /\ pc = "filter"
    /\ variant = "legacy"
    /\ clientImpactPRs' = filterClientImpactPRs_legacy(pullRequests)
    /\ IF Len(filterClientImpactPRs_legacy(pullRequests)) = 0
       THEN Finish
       ELSE Continue("generateSummary")
    /\ UNCHANGED <<variant, env, releases, body, context, previousRelease,
                   commits, prNumbers, idx, pullRequests, builds, prompt,
                   tokenCount, newTokenCount, generated, summary, calls>>

\* the first measurement with `>=` for `>`
CountTokens_fallbackAtCeiling ==
    /\ pc = "generateSummary"
    /\ variant = "index"
    /\ builds' = <<TRUE>>
    /\ prompt' = Prompt(clientImpactPRs, buildPRContext(clientImpactPRs, TRUE))
    /\ \E ok \in BOOLEAN, t \in TokenCounts :
         /\ calls' = Append(calls, Call("countTokens", ok, 0))
         /\ IF ~ok
            THEN /\ Abort(Err("api", "countTokens", <<>>))
                 /\ UNCHANGED tokenCount
            ELSE /\ tokenCount' = t
                 /\ Continue(IF t >= maxTokens THEN "regenerate"
                             ELSE "generateContent")
    /\ UNCHANGED <<variant, env, releases, body, context, previousRelease,
                   commits, prNumbers, idx, pullRequests, clientImpactPRs,
                   newTokenCount, generated, summary>>

\* generateSummary up to `if (tokenCount > maxTokens)`
CountTokens ==
    /\ pc = "generateSummary"
    /\ variant = "index"
    /\ builds' = <<TRUE>>
    /\ prompt' = Prompt(clientImpactPRs, buildPRContext(clientImpactPRs, TRUE))
    /\ \E ok \in BOOLEAN, t \in TokenCounts :
         /\ calls' = Append(calls, Call("countTokens", ok, 0))
         /\ IF ~ok
            THEN /\ Abort(Err("api", "countTokens", <<>>))
                 /\ UNCHANGED tokenCount
            ELSE /\ tokenCount' = t
                 /\ Continue(IF t > maxTokens THEN "regenerate"
                             ELSE "generateContent")
    /\ UNCHANGED <<variant, env, releases, body, context, previousRelease,
                   commits, prNumbers, idx, pullRequests, clientImpactPRs,
                   newTokenCount, generated, summary>>

\* the fallback without its size check
Regenerate_noThrow ==
    /\ pc = "regenerate"
    /\ variant = "index"
    /\ builds' = Append(builds, FALSE)
    /\ prompt' = Prompt(clientImpactPRs, buildPRContext(clientImpactPRs, FALSE))
    /\ \E ok \in BOOLEAN, t \in TokenCounts :
         /\ calls' = Append(calls, Call("countTokens", ok, 0))
         /\ IF ~ok
            THEN /\ Abort(Err("api", "countTokens", <<>>))
                 /\ UNCHANGED newTokenCount
            ELSE /\ newTokenCount' = t
                 /\ Continue("generateContent")
    /\ UNCHANGED <<variant, env, releases, body, context, previousRelease,
                   commits, prNumbers, idx, pullRequests, clientImpactPRs,
                   tokenCount, generated, summary>>

\* the body of `if (tokenCount > maxTokens)`: rebuild without diffs, measure
\* again, throw when still over the limit
Regenerate ==
    /\ pc = "regenerate"
    /\ variant = "index"
    /\ builds' = Append(builds, FALSE)
    /\ prompt' = Prompt(clientImpactPRs, buildPRContext(clientImpactPRs, FALSE))
    /\ \E ok \in BOOLEAN, t \in TokenCounts :
         /\ calls' = Append(calls, Call("countTokens", ok, 0))
         /\ IF ~ok
            THEN /\ Abort(Err("api", "countTokens", <<>>))
                 /\ UNCHANGED newTokenCount
            ELSE /\ newTokenCount' = t
                 /\ IF t > maxTokens
                    THEN Abort(Err("tokenLimit", "none", <<t>>))
                    ELSE Continue("generateContent")
    /\ UNCHANGED <<variant, env, releases, body, context, previousRelease,
                   commits, prNumbers, idx, pullRequests, clientImpactPRs,
                   tokenCount, generated, summary>>

\* the rest of generateSummary: model.generateContent(prompt)
GenerateContent ==
    /\ pc = "generateContent"
    /\ variant = "index"
    /\ generated' = Append(generated, prompt)
    /\ \E ok \in BOOLEAN, text \in Summaries :
         /\ calls' = Append(calls, Call("generateContent", ok, 0))
         /\ IF ~ok
            THEN /\ Abort(Err("api", "generateContent", <<>>))
                 /\ UNCHANGED summary
            ELSE /\ summary' = text
                 /\ Continue("updateRelease")
    /\ UNCHANGED <<variant, env, releases, body, context, previousRelease,
                   commits, prNumbers, idx, pullRequests, clientImpactPRs,
                   builds, prompt, tokenCount, newTokenCount>>

generateSummary_legacy ==
    /\ pc = "generateSummary"
    /\ variant = "legacy"
    /\ prompt' = Prompt(clientImpactPRs, buildPRContext_legacy(clientImpactPRs))
    /\ generated' = Append(generated,
           Prompt(clientImpactPRs, buildPRContext_legacy(clientImpactPRs)))
    /\ \E ok \in BOOLEAN, text \in Summaries :
         /\ calls' = Append(calls, Call("generateContent", ok, 0))
         /\ IF ~ok
            THEN /\ Abort(Err("api", "generateContent", <<>>))
                 /\ UNCHANGED summary
            ELSE /\ summary' = text
                 /\ Continue("updateRelease")
    /\ UNCHANGED <<variant, env, releases, body, context, previousRelease,
                   commits, prNumbers, idx, pullRequests, clientImpactPRs,
                   builds, tokenCount, newTokenCount>>

\* updateReleaseDescription, then the end of run()
updateReleaseDescription ==
    /\ pc = "updateRelease"
    /\ variant = "index"
    /\ \E ok \in BOOLEAN :
         /\ calls' = Append(calls, Call("updateRelease", ok, 0))
         /\ IF ~ok
            THEN /\ Abort(Err("api", "updateRelease", <<>>))
                 /\ UNCHANGED body
            ELSE /\ body' = updatedBody(context.body, summary)
                 /\ Finish
    /\ UNCHANGED <<variant, env, releases, context, previousRelease, commits,
                   prNumbers, idx, pullRequests, clientImpactPRs, builds,
                   prompt, tokenCount, newTokenCount, generated, summary>>

updateReleaseDescription_legacy ==
    /\ pc = "updateRelease"
    /\ variant = "legacy"
    /\ \E ok \in BOOLEAN :
         /\ calls' = Append(calls, Call("updateRelease", ok, 0))
         /\ IF ~ok
            THEN /\ Abort(Err("api", "updateRelease", <<>>))
                 /\ UNCHANGED body
            ELSE /\ body' = updatedBody_legacy(context.body, summary)
                 /\ Continue("notify")
    /\ UNCHANGED <<variant, env, releases, context, previousRelease, commits,
                   prNumbers, idx, pullRequests, clientImpactPRs, builds,
                   prompt, tokenCount, newTokenCount, generated, summary>>

\* addNotificationComment, then the end of run()
addNotificationComment_legacy ==
    /\ pc = "notify"
    /\ variant = "legacy"
    /\ \E ok \in BOOLEAN :
         /\ calls' = Append(calls, Call("createReleaseComment", ok, 0))
         /\ IF ~ok
            THEN Abort(Err("api", "createReleaseComment", <<>>))
            ELSE Finish
    /\ UNCHANGED <<variant, env, releases, body, context, previousRelease,
                   commits, prNumbers, idx, pullRequests, clientImpactPRs,
                   builds, prompt, tokenCount, newTokenCount, generated,
                   summary>>

Next ==
    \/ constructor
    \/ constructor_legacy
    \/ getGitHubContext
    \/ getGitHubContext_legacy
    \/ GetPreviousRelease
    \/ GetPreviousRelease_legacy
    \/ getPRsInRelease
    \/ getPRsInRelease_legacy
    \/ FetchPR
    \/ FetchPR_legacy
    \/ FilterAndBranch
    \/ FilterAndBranch_legacy
    \/ CountTokens
    \/ Regenerate
    \/ GenerateContent
    \/ generateSummary_legacy
    \/ updateReleaseDescription
    \/ updateReleaseDescription_legacy
    \/ addNotificationComment_legacy

Spec == Init /\ [][Next]_vars

(***************************************************************************)
(* generateSummary on its own: the run from the call of generateSummary    *)
(* on, for every non-empty impact set up to MaxPRs pull requests with up   *)
(* to MaxFiles files each.  The state before the call is the one run() of  *)
(* index.js leaves after fetching exactly these pull requests.             *)
(***************************************************************************)
SummaryInputs ==
    UNION { [1..n -> [labels : {<<[name |-> LabelSpace]>>},
                      files : SeqsUpTo(FileChanges, MaxFiles)]] :
              n \in 1..MaxPRs }

\* the calls of a run that fetched pull requests 1..n without a failure
CallsBefore(n) ==
    <<Call("listReleases", TRUE, 0), Call("listReleases", TRUE, 0),
      Call("compareCommits", TRUE, 0)>>
    \o [k \in 1..(2 * n) |->
            IF k % 2 = 1 THEN Call("pulls.get", TRUE, (k + 1) \div 2)
            ELSE Call("pulls.listFiles", TRUE, k \div 2)]

InitSummary ==
    /\ variant = "index"
    /\ env = [githubToken |-> TRUE, geminiKey |-> TRUE, repository |-> TRUE,
              releaseTag |-> 0]
    /\ releases = <<[tag_name |-> 1, draft |-> TRUE],
                    [tag_name |-> 2, draft |-> FALSE]>>
    /\ body \in Bodies
    /\ pc = "generateSummary"
    /\ context = [tag_name |-> 1, body |-> body]
    /\ previousRelease = [tag_name |-> 2, draft |-> FALSE]
    /\ commits = <<>>
    /\ \E inp \in SummaryInputs :
         /\ pullRequests = [i \in 1..Len(inp) |->
                [number |-> i, labels |-> inp[i].labels, files |-> inp[i].files]]
         /\ prNumbers = [i \in 1..Len(inp) |-> i]
         /\ idx = Len(inp) + 1
         /\ calls = CallsBefore(Len(inp))
    /\ clientImpactPRs = filterClientImpactPRs(pullRequests)
    /\ builds = <<>>
    /\ prompt = NoPrompt
    /\ tokenCount = -1
    /\ newTokenCount = -1
    /\ generated = <<>>
    /\ summary = ""
    /\ exitCode = -1
    /\ error = NoError

NextSummary ==
    \/ CountTokens
    \/ Regenerate
    \/ GenerateContent
    \/ updateReleaseDescription

SpecSummary == InitSummary /\ [][NextSummary]_vars

(***************************************************************************)
(* updateReleaseDescription over repeated runs.  Each run starts where     *)
(* run() calls updateReleaseDescription, with context.release.body read    *)
(* from the stored body and a summary of its own; the steps of a run       *)
(* before that point do not touch the stored body.  Here `calls` holds the *)
(* calls issued from that point on, over all runs.                         *)
(***************************************************************************)
\* "" (handled by `context.release.body || ""`) or some release notes
UpdateBodies == {<<>>} \cup Bodies

\* the workflow runs again: a new process reads the stored body in
\* getGitHubContext and reaches updateReleaseDescription with a new summary
NextRun ==
    /\ pc = "done"
    /\ CountCalls("updateRelease") < MaxRuns
    /\ context' = [context EXCEPT !.body = body]
    /\ \E text \in Summaries : summary' = text
    /\ pc' = "updateRelease"
    /\ exitCode' = -1
    /\ error' = NoError
    /\ UNCHANGED <<variant, env, releases, body, previousRelease, commits,
                   prNumbers, idx, pullRequests, clientImpactPRs, builds,
                   prompt, tokenCount, newTokenCount, generated, calls>>

InitUpdate ==
    /\ variant \in {"index", "legacy"}
    /\ env = [githubToken |-> TRUE, geminiKey |-> TRUE, repository |-> TRUE,
              releaseTag |-> IF variant = "index" THEN 0 ELSE 1]
    /\ releases = <<[tag_name |-> 1, draft |-> variant = "index"],
                    [tag_name |-> 2, draft |-> FALSE]>>
    /\ body \in UpdateBodies
    /\ pc = "updateRelease"
    /\ context = [tag_name |-> 1, body |-> body]
    /\ previousRelease = [tag_name |-> 2, draft |-> FALSE]
    /\ commits = <<>>
    /\ prNumbers = <<1>>
    /\ idx = 2
    /\ pullRequests = <<[number |-> 1,
                         labels |-> <<[name |-> IF variant = "index"
                                                THEN LabelSpace ELSE LabelDash]>>,
                         files |-> <<>>]>>
    /\ clientImpactPRs = pullRequests
    /\ builds = IF variant = "index" THEN <<TRUE>> ELSE <<>>
    /\ prompt = IF variant = "index"
                THEN Prompt(clientImpactPRs,
                            buildPRContext(clientImpactPRs, TRUE))
                ELSE Prompt(clientImpactPRs,
                            buildPRContext_legacy(clientImpactPRs))
    /\ tokenCount = IF variant = "index" THEN maxTokens ELSE -1
    /\ newTokenCount = -1
    /\ generated = <<prompt>>
    /\ summary \in Summaries
    /\ calls = <<>>
    /\ exitCode = -1
    /\ error = NoError

NextUpdate ==
    \/ updateReleaseDescription
    \/ updateReleaseDescription_legacy
    \/ addNotificationComment_legacy
    \/ NextRun

SpecUpdate == InitUpdate /\ [][NextUpdate]_vars

(***************************************************************************)
(* Claims about extractPRNumbers (checked under SpecExtract).              *)
(***************************************************************************)
NoDuplicates(s) == \A i, j \in 1..Len(s) : i # j => s[i] # s[j]

\* commit c contributes the number n under the running variant's pattern
Contributes(c, n) ==
    IF variant = "index"
    THEN /\ mergeMatch(c.message) # <<>>
         /\ ~Includes(c.message, DevelopmentSource)
         /\ parseInt(mergeMatch(c.message)) = n
    ELSE /\ prMatch_legacy(c.message) # <<>>
         /\ parseInt(prMatch_legacy(c.message)) = n

\* position of the first commit that contributes n (0 when none does)
FirstCommit(n) ==
    IF \E k \in 1..Len(commits) : Contributes(commits[k], n)
    THEN CHOOSE k \in 1..Len(commits) :
             /\ Contributes(commits[k], n)
             /\ \A j \in 1..(k - 1) : ~Contributes(commits[j], n)
    ELSE 0

\* C1: the list extractPRNumbers returns has no duplicate number, every
\* returned number was contributed by some commit of the input, and the
\* numbers stand in the order of the first commit that contributed each
\* (not in numeric order).
C1_UniqueInFirstOccurrenceOrder ==
    pc = "extracted" =>
        /\ NoDuplicates(prNumbers)
        /\ \A i \in 1..Len(prNumbers) : FirstCommit(prNumbers[i]) >= 1
        /\ \A i, j \in 1..Len(prNumbers) :
               i < j => FirstCommit(prNumbers[i]) < FirstCommit(prNumbers[j])

\* a number mentioned twice, the larger number first
C1_Witness ==
    /\ pc = "extracted"
    /\ variant = "index"
    /\ commits = <<[message |-> Msg34], [message |-> Msg12], [message |-> Msg34]>>
    /\ prNumbers = <<34, 12>>

\* C2: in merge-style extraction every extracted number comes from a commit
\* that matches "Merge pull request #<digits>" and is not a merge from
\* umanai/development, so an excluded merge never contributes its number;
\* the list ["Merge pull request #12 from x/y", "Merge pull request #34 from
\* umanai/development"] yields exactly {12}.
C2_ExcludedSourceNeverExtracted ==
    (variant = "index" /\ pc = "extracted") =>
        /\ \A i \in 1..Len(prNumbers) :
               \E k \in 1..Len(commits) :
                   /\ mergeMatch(commits[k].message) # <<>>
                   /\ parseInt(mergeMatch(commits[k].message)) = prNumbers[i]
                   /\ ~Includes(commits[k].message, DevelopmentSource)
        /\ commits = <<[message |-> Msg12], [message |-> Msg34Dev]>>
               => prNumbers = <<12>>

C2_Witness ==
    /\ variant = "index"
    /\ pc = "extracted"
    /\ commits = <<[message |-> Msg12], [message |-> Msg34Dev]>>
    /\ prNumbers = <<12>>

(***************************************************************************)
(* Claims about generateSummary (checked under SpecSummary) and about the  *)
(* run (checked under Spec).                                               *)
(***************************************************************************)
PerPRCalls == {"pulls.get", "pulls.listFiles"}

CountOk(api) ==
    Cardinality({i \in 1..Len(calls) : calls[i].api = api /\ calls[i].ok})

Numbers(prs) == [i \in 1..Len(prs) |-> prs[i].number]

\* the prompt the running variant builds with file diffs
WithDiffsPrompt ==
    Prompt(clientImpactPRs, buildPRContext(clientImpactPRs, TRUE))

\* the prompt the running variant builds without file diffs
WithoutDiffsPrompt ==
    Prompt(clientImpactPRs, buildPRContext(clientImpactPRs, FALSE))

\* some pull request of a prompt carries a diff body
CarriesDiff(p) ==
    \E i \in 1..Len(p.context) :
        \E k \in 1..Len(p.context[i].files) :
            p.context[i].files[k].kind = "diff"

\* C3: when the with-diffs prompt measures at or below the ceiling, one
\* measurement call is made in the run, the without-diffs rendering is never
\* built, and the prompt handed to the generation call is the with-diffs one.
C3_WithinBudgetNoFallback ==
    (tokenCount # -1 /\ tokenCount <= maxTokens) =>
        /\ CountCalls("countTokens") = 1
        /\ builds = <<TRUE>>
        /\ newTokenCount = -1
        /\ Len(generated) <= 1
        /\ \A i \in 1..Len(generated) : generated[i] = WithDiffsPrompt

\* measured exactly at the ceiling, generated with a diff body in the prompt
C3_Witness ==
    /\ tokenCount = maxTokens
    /\ Len(generated) = 1
    /\ CarriesDiff(generated[1])
    /\ pc = "done"
    /\ exitCode = 0

\* C4: when both prompts measure above the ceiling, generateSummary fails with
\* the size-exceeded error after exactly two measurement calls, and neither the
\* generation call nor the release-body write is issued in that run.
C4_BothOverBudgetFails ==
    (tokenCount > maxTokens /\ newTokenCount > maxTokens) =>
        /\ pc = "done"
        /\ exitCode = 1
        /\ error.kind = "tokenLimit"
        /\ CountCalls("countTokens") = 2
        /\ CountCalls("generateContent") = 0
        /\ generated = <<>>
        /\ CountCalls("updateRelease") = 0
        /\ body = context.body

C4_Witness ==
    /\ tokenCount = 2 * maxTokens
    /\ newTokenCount = maxTokens + 1
    /\ pc = "done"
    /\ exitCode = 1
    /\ Len(clientImpactPRs) = 2

\* C5: when the with-diffs prompt measures above the ceiling and the
\* without-diffs prompt at or below it, the generation call is issued once,
\* with the without-diffs prompt, in which no pull request carries a diff body;
\* there are two measurements and two renderings, never a third.
C5_SingleTotalDegrade ==
    (tokenCount > maxTokens /\ newTokenCount >= 0 /\ newTokenCount <= maxTokens) =>
        /\ CountCalls("countTokens") = 2
        /\ builds = <<TRUE, FALSE>>
        /\ Len(generated) <= 1
        /\ CountCalls("generateContent") = Len(generated)
        /\ pc # "generateContent" => Len(generated) = 1
        /\ \A i \in 1..Len(generated) :
               /\ generated[i] = WithoutDiffsPrompt
               /\ Len(generated[i].context) = Len(clientImpactPRs)
               /\ ~CarriesDiff(generated[i])

\* two pull requests, one of them with a diff small enough to be included,
\* measured at 2,000,000 and then at 500,000
C5_Witness ==
    /\ tokenCount = 2 * maxTokens
    /\ newTokenCount = maxTokens \div 2
    /\ Len(clientImpactPRs) = 2
    /\ \E i \in 1..2 : \E k \in 1..Len(clientImpactPRs[i].files) :
           /\ clientImpactPRs[i].files[k].patchLength > 0
           /\ clientImpactPRs[i].files[k].patchLength < PatchInclusionCeiling
    /\ Len(generated) = 1
    /\ pc = "done"
    /\ exitCode = 0

\* getPreviousRelease has returned
PreviousResolved ==
    CountOk("listReleases") = (IF variant = "index" THEN 2 ELSE 1)

\* the first listed (most recent) release that is neither a draft nor the
\* current release, NoRelease when there is none
LatestPublishedOther(rels, currentTag) ==
    LET Fits(i) == ~rels[i].draft /\ rels[i].tag_name # currentTag
    IN  IF \E i \in 1..Len(rels) : Fits(i)
        THEN rels[CHOOSE i \in 1..Len(rels) :
                      Fits(i) /\ \A j \in 1..(i - 1) : ~Fits(j)]
        ELSE NoRelease

\* C6: getPreviousRelease returns the most recent release that is not a draft
\* and is not the current release, null when there is none; with a null
\* previous release getPRsInRelease returns no pull request, without error and
\* without a commit comparison.
C6_PreviousReleaseResolution ==
    /\ PreviousResolved =>
           previousRelease = LatestPublishedOther(releases, context.tag_name)
    /\ (PreviousResolved /\ previousRelease = NoRelease
            /\ pc # "getPRsInRelease") =>
           /\ pullRequests = <<>>
           /\ CountCalls("compareCommits") = 0
           /\ exitCode # 1

\* every call made for reference n succeeded
FetchedAll(n) == \A i \in 1..Len(calls) : calls[i].pr = n => calls[i].ok

\* C7: a failure fetching one pull request (its detail or its file list)
\* excludes that pull request only: the list collected so far is the
\* references already visited whose fetches all succeeded, in extraction
\* order; every visited reference was attempted; the loop is left only when
\* every reference has been visited; no run fails on a per-PR call.
C7_FailSoftFetch ==
    /\ Numbers(pullRequests) =
           SelectSeq(SubSeq(prNumbers, 1, idx - 1), FetchedAll)
    /\ \A k \in 1..(idx - 1) :
           \E i \in 1..Len(calls) :
               calls[i].api = "pulls.get" /\ calls[i].pr = prNumbers[k]
    /\ pc # "fetch" => idx = Len(prNumbers) + 1
    /\ error.api \notin PerPRCalls

\* the file list of the first of two references fails; the second is fetched
C7_Witness ==
    /\ pc = "filter"
    /\ Len(prNumbers) = 2
    /\ \E i \in 1..Len(calls) :
           /\ calls[i].api = "pulls.listFiles"
           /\ calls[i].pr = prNumbers[1]
           /\ ~calls[i].ok
    /\ Numbers(pullRequests) = <<prNumbers[2]>>

\* a call other than a per-PR fetch has failed
FatalStepFailed ==
    \E i \in 1..Len(calls) : ~calls[i].ok /\ calls[i].api \notin PerPRCalls

\* C8: a failure of any step other than a per-PR fetch (release listing,
\* commit comparison, cost measurement, generation, document write) aborts the
\* run with a surfaced error and exit code 1; a failed commit comparison does
\* not end the run as a successful no-op.
C8_OtherFailuresAbort ==
    FatalStepFailed => (pc = "done" /\ exitCode = 1 /\ error.kind = "api")

\* C9: the release body is written at most once, the write is the last call
\* of the run and follows only successful steps, and a run that ends with
\* exit code 1 has not modified the stored body.
C9_WriteLastAndOnlyOnSuccess ==
    /\ CountCalls("updateRelease") <= 1
    /\ \A i \in 1..Len(calls) :
           calls[i].api = "updateRelease" =>
               /\ i = Len(calls)
               /\ \A j \in 1..(i - 1) :
                      calls[j].api \notin PerPRCalls => calls[j].ok
    /\ exitCode = 1 => (CountOk("updateRelease") = 0 /\ body \in Bodies)

\* the impact set of the fetched pull requests, by the running variant's rule
ImpactSet ==
    IF variant = "index" THEN filterClientImpactPRs(pullRequests)
    ELSE filterClientImpactPRs_legacy(pullRequests)

NoSummaryCalls ==
    /\ CountCalls("countTokens") = 0
    /\ CountCalls("generateContent") = 0
    /\ CountCalls("updateRelease") = 0

\* C10: when no fetched pull request carries an impact label (also when none
\* was fetched), the run ends at once with exit code 0 and no error, and no
\* measurement, generation or write call is made in it.
C10_EmptyImpactSetIsNoOp ==
    /\ [](pc \in {"new", "getGitHubContext", "getPreviousRelease",
                  "getPRsInRelease", "fetch", "filter"} => NoSummaryCalls)
    /\ [][(pc = "filter" /\ ImpactSet = <<>>) =>
              /\ pc' = "done"
              /\ exitCode' = 0
              /\ error' = NoError
              /\ calls' = calls
              /\ body' = body]_vars

\* a pull request was fetched, it carries no impact label, the run is over
C10_Witness ==
    /\ pc = "done"
    /\ exitCode = 0
    /\ Len(pullRequests) >= 1
    /\ clientImpactPRs = <<>>
    /\ NoSummaryCalls

(***************************************************************************)
(* Claims about configuration errors (Spec) and the size-exceeded error    *)
(* (SpecSummary).                                                          *)
(***************************************************************************)
\* a credential, the repository or (part_000) the release tag is missing
ConfigurationError ==
    \/ ~env.githubToken
    \/ ~env.geminiKey
    \/ ~env.repository
    \/ (variant = "legacy" /\ env.releaseTag = 0)

\* C11: a configuration error (missing source-control credential, missing
\* generative-API credential, missing repository, missing release context) is
\* fatal and aborts the run before any external call: no call is ever issued,
\* the run does not get past getGitHubContext, and it ends with exit code 1
\* and a configuration error.
C11_ConfigurationErrorBeforeAnyCall ==
    ConfigurationError =>
        /\ calls = <<>>
        /\ pc \in {"new", "getGitHubContext", "done"}
        /\ pc = "done" => (exitCode = 1 /\ error.kind = "config")

\* C12: the size-exceeded error carries both measured token counts, the
\* with-diffs count of the first measurement and the without-diffs count of
\* the second.
C12_SizeErrorCarriesBothCounts ==
    error.kind = "tokenLimit" => error.tokens = <<tokenCount, newTokenCount>>

(***************************************************************************)
(* Claim about updateReleaseDescription over repeated runs (SpecUpdate).   *)
(***************************************************************************)
\* the regions updateReleaseDescription has put into a body
Regions(b) == SelectSeq(b, LAMBDA x : x.kind \in {"details", "section"})

\* C13: the prepend update of index.js puts the new <details> region at the
\* very top of the body and leaves the previous body unchanged as the suffix;
\* over k successful runs that each read the body the previous run wrote, the
\* body holds k regions, so the update is not idempotent.  (The update of
\* part_000 puts its section at the end; its sections accumulate alike.)
C13_PrependAccumulates ==
    /\ [](Len(Regions(body)) = CountOk("updateRelease"))
    /\ [][(variant = "index" /\ body' # body) =>
              /\ Len(body') = Len(body) + 1
              /\ body'[1] = [kind |-> "details", text |-> summary]
              /\ SubSeq(body', 2, Len(body')) = body]_vars
    /\ [][(variant = "index" /\ pc = "updateRelease" /\ exitCode' = 0) =>
              body' # body]_vars

\* three successful runs of index.js over some release notes, the last two
\* with the same summary: three regions on top of the notes
C13_Witness ==
    /\ variant = "index"
    /\ CountOk("updateRelease") = 3
    /\ Len(body) = 4
    /\ body[1].kind = "details"
    /\ body[2].kind = "details"
    /\ body[1].text = body[2].text
    /\ body[3].kind = "details"
    /\ body[4].kind = "text"
    /\ pc = "done"
    /\ exitCode = 0

====
